---- MODULE Spec2Model ----
(***************************************************************************)
(* A model of the todo service of src/src/main.rs: an axum router with six *)
(* routes and one fallback in front of a PostgreSQL table                  *)
(*     todos(id serial primary key, description text, completed boolean).  *)
(* Every handler runs its extractors and then exactly one SQL statement.   *)
(*                                                                         *)
(* Spec      one request at a time; an action is a whole handler.          *)
(* ConcSpec  several handler tasks in flight; a task suspends at its       *)
(*           database round trip, the statement itself is atomic.          *)
(***************************************************************************)
EXTENDS Integers, Sequences, FiniteSets, TLC

VARIABLES
    todos,    \* the rows of table todos, a set of Todo records
    seq,      \* the next value of the sequence behind the serial column id
    req,      \* Spec: the request served last
    resp,     \* Spec: the response to it
    tasks     \* ConcSpec: per handler task, where it stands

vars == <<todos, seq, req, resp, tasks>>

----------------------------------------------------------------------------
(* Bounds of the model *)

\* the sequence stops handing out ids after MaxId
MaxId == 3
\* the word width usize and i64 share, scaled down from 64
UsizeBits == 3
\* ConcSpec: the sequence stops handing out ids after MaxConcId
MaxConcId == 2

Descs == {"", "a"}
\* ConcSpec: the handler tasks in flight
Tasks == {"t1", "t2"}

----------------------------------------------------------------------------
(* Values *)

\* Rust Option<T>: the empty set is None, {x} is Some(x)
None == {}
Some(x) == {x}
Option(S) == {None} \cup {Some(x) : x \in S}
UnwrapOr(opt, default) == IF opt = None THEN default ELSE CHOOSE x \in opt : TRUE

Todo(id, description, completed) ==
    [id |-> id, description |-> description, completed |-> completed]

\* usize as i64: the same bits read as two's complement
Pow2(n) == IF n <= 0 THEN 1 ELSE 2 ^ n
UsizeMax == Pow2(UsizeBits) - 1
I64Max == Pow2(UsizeBits - 1) - 1
AsI64(n) == IF n > I64Max THEN n - Pow2(UsizeBits) ELSE n

\* decimal text of a path segment; Path<i32> parses it back
Digits == <<"0", "1", "2", "3", "4", "5", "6", "7", "8", "9">>
IdText(n) == Digits[n + 1]
IsI32Text(s) == \E i \in 1..Len(Digits) : Digits[i] = s
ParseI32(s) == (CHOOSE i \in 1..Len(Digits) : Digits[i] = s) - 1

----------------------------------------------------------------------------
(* Responses *)

Response(status, kind, text, rows) ==
    [status |-> status, kind |-> kind, text |-> text, rows |-> rows]

NoResponse == Response(0, "none", "", <<>>)
JsonTodo(t) == Response(200, "json_todo", "", <<t>>)
JsonList(ts) == Response(200, "json_list", "", ts)
Text(status, text) == Response(status, "text", text, <<>>)

RowNotFound == "no rows returned by a query that expected to return at least one row"
NegativeOffset == "error returned from database: OFFSET must not be negative"
NegativeLimit == "error returned from database: LIMIT must not be negative"

\* internal_error answering with the status of the fallback
internal_error_NotFound(error) == Text(404, error)

\* fn internal_error
internal_error(error) == Text(500, error)

\* async fn handler_404
handler_404 == Text(404, "Not Found")

\* a matched path whose method router has no handler for the method
MethodNotAllowed == Response(405, "empty", "", <<>>)

\* rejections of the extractors, produced before the handler body runs
PathRejection == Text(400, "Invalid URL: Cannot parse path parameter to i32")
QueryRejection == Text(400, "Failed to deserialize query string")
JsonSyntaxRejection == Text(400, "Failed to parse the request body as JSON")
MissingContentType == Text(415, "Expected request with Content-Type: application/json")
JsonDataRejection == Text(422, "Failed to deserialize the JSON body into the target type")

\* a HEAD request runs the GET handler and loses the response body
StripBody(method, r) ==
    IF method = "HEAD" THEN Response(r.status, "empty", "", <<>>) ELSE r

----------------------------------------------------------------------------
(* Requests *)

Request(method, path, query, body) ==
    [method |-> method, path |-> path, query |-> query, body |-> body]

Query(offset, limit) == [offset |-> offset, limit |-> limit]
Body(kind, description, completed) ==
    [kind |-> kind, description |-> description, completed |-> completed]

NoQuery == Query(None, None)
NoBody == Body("none", None, None)
NoRequest == Request("", <<>>, NoQuery, NoBody)

Methods == {"GET", "HEAD", "POST", "PUT", "DELETE", "PATCH"}

TodoPath(id) == <<"todos", IdText(id)>>
\* the last of them is the path of an id the sequence never hands out
IdPaths == {TodoPath(id) : id \in 1..(MaxId + 1)}
NonIdPath == <<"todos", "abc">>
Paths == {<<>>, <<"todos">>, TodoPath(1), <<"nope">>}

\* offsets and limits below the number of rows, and one past i64::MAX, where
\* the cast to i64 wraps
QueryValues == (0..(MaxId - 1)) \cup {I64Max + 1}
Queries ==
    {Query(Some(o), Some(l)) : o \in QueryValues, l \in QueryValues}
    \cup {Query(None, None), Query(Some(1), None), Query(None, Some(1))}

Malformed == Body("malformed", None, None)
JsonBodies == {Body("json", d, c) : d \in Option(Descs), c \in Option(BOOLEAN)}
CreateBodies ==
    {Malformed, Body("json", None, None), Body("json", Some("a"), Some(TRUE))}
    \cup {Body("json", Some(d), None) : d \in Descs}

Requests ==
    {Request(m, p, NoQuery, NoBody) : m \in Methods, p \in Paths}
    \cup {Request(m, p, NoQuery, NoBody) :
            m \in {"GET", "DELETE"}, p \in IdPaths \cup {NonIdPath}}
    \cup {Request("GET", <<"todos">>, q, NoBody) : q \in Queries}
    \cup {Request("POST", <<"todos">>, NoQuery, b) : b \in CreateBodies}
    \cup {Request("PUT", TodoPath(id), NoQuery, b) : id \in 1..MaxId, b \in JsonBodies}
    \cup {Request("PUT", p, NoQuery, b) :
            p \in {TodoPath(MaxId + 1), NonIdPath},
            b \in {Malformed, Body("json", Some("a"), Some(TRUE))}}

----------------------------------------------------------------------------
(* The router built in main *)

Routes ==
    { [path |-> "/",          method |-> "GET",    handler |-> "hello"],
      [path |-> "/todos",     method |-> "GET",    handler |-> "get_todos"],
      [path |-> "/todos",     method |-> "POST",   handler |-> "add_todo"],
      [path |-> "/todos/:id", method |-> "GET",    handler |-> "get_todo"],
      [path |-> "/todos/:id", method |-> "PUT",    handler |-> "update_todo"],
      [path |-> "/todos/:id", method |-> "DELETE", handler |-> "delete_todo"] }

\* the route template a path matches, "" when it matches none
MatchPath(path) ==
    IF path = <<>> THEN "/"
    ELSE IF path = <<"todos">> THEN "/todos"
    ELSE IF Len(path) = 2 /\ path[1] = "todos" THEN "/todos/:id"
    ELSE ""

\* routing::get also serves HEAD
Accepts(routeMethod, method) ==
    routeMethod = method \/ (routeMethod = "GET" /\ method = "HEAD")

\* Route with the fallback also serving the other methods of a matched path
Route_FallbackForAllUnmatched(method, path) ==
    LET p == MatchPath(path)
        hs == {r \in Routes : r.path = p /\ Accepts(r.method, method)}
    IN  IF hs = {} THEN "handler_404" ELSE (CHOOSE r \in hs : TRUE).handler

\* the handler a request is dispatched to: the fallback serves the paths no
\* route matches; a matched path answers the other methods itself
Route(method, path) ==
    LET p == MatchPath(path)
        hs == {r \in Routes : r.path = p /\ Accepts(r.method, method)}
    IN  IF p = "" THEN "handler_404"
        ELSE IF hs = {} THEN "method_not_allowed"
        ELSE (CHOOSE r \in hs : TRUE).handler

----------------------------------------------------------------------------
(* The five SQL statements, each atomic in the database *)

Ok(value) == [ok |-> TRUE, value |-> value, error |-> ""]
Err(error) == [ok |-> FALSE, value |-> <<>>, error |-> error]

Min(a, b) == IF a < b THEN a ELSE b

\* ORDER BY id
RECURSIVE SortById(_)
SortById(rows) ==
    IF rows = {} THEN <<>>
    ELSE LET first == CHOOSE r \in rows : \A q \in rows : r.id <= q.id
         IN  <<first>> \o SortById(rows \ {first})

\* OFFSET $1 LIMIT $2 over an ordered result
OffsetLimit(ordered, offset, limit) ==
    SubSeq(ordered, offset + 1, Min(Len(ordered), offset + limit))

\* SELECT ... FROM todos ORDER BY id OFFSET $1 LIMIT $2
SelectPage(table, offset, limit) ==
    IF offset < 0 THEN Err(NegativeOffset)
    ELSE IF limit < 0 THEN Err(NegativeLimit)
    ELSE Ok(OffsetLimit(SortById(table), offset, limit))

\* InsertedRow with the description left at the empty string
InsertedRow_NoDescription(nextval, description, completed) ==
    Todo(nextval, "", completed)

\* InsertedRow with an id that does not come from the sequence
InsertedRow_FixedId(nextval, description, completed) ==
    Todo(1, description, completed)

\* INSERT INTO todos (description, completed) VALUES ($1, $2): id is the
\* column default nextval
InsertedRow(nextval, description, completed) ==
    Todo(nextval, description, completed)

\* the WHERE id = $1 of the three by-id statements
WhereId(table, id) == {r \in table : r.id = id}

\* UpdatedRow as a partial update: an empty description keeps the old one
UpdatedRow_KeepsDescription(row, description, completed) ==
    Todo(row.id, IF description = "" THEN row.description ELSE description, completed)

\* UPDATE todos SET description = $1, completed = $2: the new version of a row
UpdatedRow(row, description, completed) ==
    Todo(row.id, description, completed)

\* UpdateTable without the WHERE clause
UpdateTable_NoWhere(table, id, description, completed) ==
    {Todo(r.id, description, completed) : r \in table}

\* UPDATE ... WHERE id = $3: the table afterwards
UpdateTable(table, id, description, completed) ==
    (table \ WhereId(table, id))
    \cup {UpdatedRow(r, description, completed) : r \in WhereId(table, id)}

\* DeleteTable that removes nothing
DeleteTable_KeepsRow(table, id) == table

\* DELETE FROM todos WHERE id = $1: the table afterwards
DeleteTable(table, id) == table \ WhereId(table, id)

\* .fetch_one: the first row, or Error::RowNotFound
fetch_one(rows) == IF rows = <<>> THEN Err(RowNotFound) ELSE Ok(rows[1])

----------------------------------------------------------------------------
(* Extractors *)

\* Query<ListOptions>: both fields are required
ExtractListOptions(query) ==
    IF query.offset = None \/ query.limit = None THEN Err("query")
    ELSE Ok([offset |-> UnwrapOr(query.offset, 0), limit |-> UnwrapOr(query.limit, 0)])

\* Path<i32>
ExtractId(path) ==
    IF IsI32Text(path[2]) THEN Ok(ParseI32(path[2])) ELSE Err("path")

\* Json<T>: the rejection of a body that is no JSON document, None otherwise
JsonRejection(body) ==
    IF body.kind = "none" THEN Some(MissingContentType)
    ELSE IF body.kind = "malformed" THEN Some(JsonSyntaxRejection)
    ELSE None

\* UpdateCompleted with the other default
UpdateCompleted_DefaultTrue(body) == UnwrapOr(body.completed, TRUE)

\* unwrap_or of the two UpdateTodo fields
UpdateDescription(body) == UnwrapOr(body.description, "")
UpdateCompleted(body) == UnwrapOr(body.completed, FALSE)

----------------------------------------------------------------------------
(* Handlers: the table, the sequence and the response after serving r *)

Outcome(table, nextval, response) ==
    [todos |-> table, seq |-> nextval, resp |-> response]

\* Result<Json<Todo>, (StatusCode, String)> of a fetch_one
TodoResponse(result) ==
    IF result.ok THEN JsonTodo(result.value) ELSE internal_error(result.error)

hello(table, nextval, r) == Outcome(table, nextval, Text(200, "Hello, World!"))

get_todos(table, nextval, r) ==
    LET options == ExtractListOptions(r.query)
        result == SelectPage(table, AsI64(options.value.offset),
                             AsI64(options.value.limit))
    IN  IF ~options.ok THEN Outcome(table, nextval, QueryRejection)
        ELSE IF result.ok THEN Outcome(table, nextval, JsonList(result.value))
        ELSE Outcome(table, nextval, internal_error(result.error))

add_todo(table, nextval, r) ==
    LET row == InsertedRow(nextval, UnwrapOr(r.body.description, ""), FALSE)
    IN  IF JsonRejection(r.body) # None
        THEN Outcome(table, nextval, UnwrapOr(JsonRejection(r.body), NoResponse))
        ELSE IF r.body.description = None
        THEN Outcome(table, nextval, JsonDataRejection)
        ELSE Outcome(table \cup {row}, nextval + 1,
                     TodoResponse(fetch_one(<<row>>)))

get_todo(table, nextval, r) ==
    LET id == ExtractId(r.path)
    IN  IF ~id.ok THEN Outcome(table, nextval, PathRejection)
        ELSE Outcome(table, nextval,
                     TodoResponse(fetch_one(SortById(WhereId(table, id.value)))))

update_todo(table, nextval, r) ==
    LET id == ExtractId(r.path)
        after == UpdateTable(table, id.value, UpdateDescription(r.body),
                             UpdateCompleted(r.body))
    IN  IF ~id.ok THEN Outcome(table, nextval, PathRejection)
        ELSE IF JsonRejection(r.body) # None
        THEN Outcome(table, nextval, UnwrapOr(JsonRejection(r.body), NoResponse))
        ELSE Outcome(after, nextval,
                     TodoResponse(fetch_one(SortById(WhereId(after, id.value)))))

delete_todo(table, nextval, r) ==
    LET id == ExtractId(r.path)
    IN  IF ~id.ok THEN Outcome(table, nextval, PathRejection)
        ELSE Outcome(DeleteTable(table, id.value), nextval,
                     TodoResponse(fetch_one(SortById(WhereId(table, id.value)))))

\* what the method router and the fallback answer themselves
method_not_allowed(table, nextval, r) == Outcome(table, nextval, MethodNotAllowed)
fallback(table, nextval, r) == Outcome(table, nextval, handler_404)

\* the response as sent: a HEAD response loses its body
Sent(r, out) == [out EXCEPT !.resp = StripBody(r.method, out.resp)]

\* the service: route, then run the handler
Handle(table, nextval, r) ==
    LET h == Route(r.method, r.path)
    IN  CASE h = "hello"       -> Sent(r, hello(table, nextval, r))
          [] h = "get_todos"   -> Sent(r, get_todos(table, nextval, r))
          [] h = "add_todo"    -> Sent(r, add_todo(table, nextval, r))
          [] h = "get_todo"    -> Sent(r, get_todo(table, nextval, r))
          [] h = "update_todo" -> Sent(r, update_todo(table, nextval, r))
          [] h = "delete_todo" -> Sent(r, delete_todo(table, nextval, r))
          [] h = "method_not_allowed" -> Sent(r, method_not_allowed(table, nextval, r))
          [] OTHER -> Sent(r, fallback(table, nextval, r))

----------------------------------------------------------------------------
(* Spec: one request at a time *)

\* a task between two requests
IdleTask == [pc |-> "idle"]
IdleTasks == [t \in Tasks |-> IdleTask]

Init ==
    /\ todos = {}
    /\ seq = 1
    /\ req = NoRequest
    /\ resp = NoResponse
    /\ tasks = IdleTasks

\* the request r served with outcome out
Serve(r, outcome) ==
    \E out \in {Sent(r, outcome)} :
        /\ todos' = out.todos
        /\ seq' = out.seq
        /\ req' = r
        /\ resp' = out.resp
        /\ UNCHANGED tasks

\* the requests the router dispatches to a handler
RequestsOf(handler) == {r \in Requests : Route(r.method, r.path) = handler}
HelloRequests == RequestsOf("hello")
GetTodosRequests == RequestsOf("get_todos")
AddTodoRequests == RequestsOf("add_todo")
GetTodoRequests == RequestsOf("get_todo")
UpdateTodoRequests == RequestsOf("update_todo")
DeleteTodoRequests == RequestsOf("delete_todo")
NotAllowedRequests == RequestsOf("method_not_allowed")
FallbackRequests == RequestsOf("handler_404")

Hello == \E r \in HelloRequests : Serve(r, hello(todos, seq, r))
GetTodos == \E r \in GetTodosRequests : Serve(r, get_todos(todos, seq, r))
AddTodo == seq <= MaxId /\ \E r \in AddTodoRequests : Serve(r, add_todo(todos, seq, r))
GetTodo == \E r \in GetTodoRequests : Serve(r, get_todo(todos, seq, r))
UpdateTodo == \E r \in UpdateTodoRequests : Serve(r, update_todo(todos, seq, r))
DeleteTodo == \E r \in DeleteTodoRequests : Serve(r, delete_todo(todos, seq, r))
NotAllowed == \E r \in NotAllowedRequests : Serve(r, method_not_allowed(todos, seq, r))
Handler404 == \E r \in FallbackRequests : Serve(r, fallback(todos, seq, r))

Next ==
    \/ Hello
    \/ GetTodos
    \/ AddTodo
    \/ GetTodo
    \/ UpdateTodo
    \/ DeleteTodo
    \/ NotAllowed
    \/ Handler404

Spec == Init /\ [][Next]_vars

----------------------------------------------------------------------------
(* ConcSpec: handler tasks in flight. A task is accepted, suspends at its  *)
(* database round trip, runs its one statement atomically and resumes with *)
(* the response.                                                           *)

ConcIds == 1..MaxConcId

ConcRequests ==
    {Request("POST", <<"todos">>, NoQuery, Body("json", Some(d), None)) : d \in Descs}
    \cup {Request("PUT", TodoPath(id), NoQuery, b) : id \in ConcIds, b \in JsonBodies}
    \cup {Request(m, TodoPath(id), NoQuery, NoBody) : m \in {"GET", "DELETE"}, id \in ConcIds}

Pending(handler) ==
    {t \in Tasks : /\ tasks[t].pc = "pending"
                   /\ Route(tasks[t].req.method, tasks[t].req.path) = handler}

Accept(t, r) ==
    /\ tasks[t].pc = "idle"
    /\ Route(r.method, r.path) = "add_todo"
            => seq + Cardinality(Pending("add_todo")) <= MaxConcId
    /\ tasks' = [tasks EXCEPT ![t] = [pc |-> "pending", req |-> r, resp |-> NoResponse]]
    /\ UNCHANGED <<todos, seq, req, resp>>

Execute(t) ==
    /\ tasks[t].pc = "pending"
    /\ \E out \in {Handle(todos, seq, tasks[t].req)} :
            /\ todos' = out.todos
            /\ seq' = out.seq
            /\ tasks' = [tasks EXCEPT ![t].pc = "done", ![t].resp = out.resp]
    /\ UNCHANGED <<req, resp>>

Finish(t) ==
    /\ tasks[t].pc = "done"
    /\ tasks' = [tasks EXCEPT ![t] = IdleTask]
    /\ UNCHANGED <<todos, seq, req, resp>>

ConcNext ==
    \/ \E t \in Tasks, r \in ConcRequests : Accept(t, r)
    \/ \E t \in Tasks : Execute(t)
    \/ \E t \in Tasks : Finish(t)

ConcSpec == Init /\ [][ConcNext]_vars

----------------------------------------------------------------------------
(* Properties *)

Ids(table) == {r.id : r \in table}
IsTodoPath(path) == Len(path) = 2 /\ path[1] = "todos" /\ IsI32Text(path[2])
PathId(path) == ParseI32(path[2])
\* the value a field of a request carries, the default when it carries none
Supplied(field, default) == IF field = {} THEN default ELSE CHOOSE x \in field : TRUE
Returned(r) == r.rows[1]
IsTodo(r) == r.status = 200 /\ r.kind = "json_todo" /\ Len(r.rows) = 1
NotFoundError(r) == r.status = 500 /\ r.kind = "text" /\ r.text = RowNotFound

\* C1: a successful POST /todos with description d returns a Todo t with
\* description d and completed = false, and the GET /todos/{t.id} served
\* next returns 200 with a Todo equal to t.
C1_CreateThenGet ==
    [][ (req.method = "POST" /\ req.path = <<"todos">> /\ resp.status = 200)
        => /\ IsTodo(resp)
           /\ req.body.description = {Returned(resp).description}
           /\ Returned(resp).completed = FALSE
           /\ (req'.method = "GET" /\ req'.path = TodoPath(Returned(resp).id))
                  => resp' = resp ]_vars

\* a created Todo with a non-empty description has been fetched by its id
C1_Witness ==
    /\ req.method = "GET" /\ req.path = TodoPath(seq - 1)
    /\ IsTodo(resp)
    /\ Returned(resp) = Todo(seq - 1, "a", FALSE)

\* C2: PUT /todos/{id} on an existing id writes both columns: description is
\* the supplied one or "" when absent, completed the supplied one or false
\* when absent, in the stored row and in the returned Todo.
C2_UpdateWritesBothColumns ==
    [][ (/\ req'.method = "PUT" /\ IsTodoPath(req'.path) /\ req'.body.kind = "json"
         /\ PathId(req'.path) \in Ids(todos))
        => LET new == Todo(PathId(req'.path),
                           Supplied(req'.body.description, ""),
                           Supplied(req'.body.completed, FALSE))
           IN  /\ resp' = JsonTodo(new)
               /\ {r \in todos' : r.id = new.id} = {new} ]_vars

\* an update supplying only completed has left the row with description ""
C2_Witness ==
    /\ req.method = "PUT" /\ req.body.kind = "json"
    /\ req.body.description = {} /\ req.body.completed = {TRUE}
    /\ IsTodo(resp)
    /\ Returned(resp).description = "" /\ Returned(resp).completed = TRUE
    /\ Returned(resp) \in todos

\* C3: DELETE /todos/{id} on an existing id returns 200 with the row as it
\* was just before, removes the row, and a GET /todos/{id} served next
\* yields the not-found error instead of a Todo.
C3_DeleteThenGet ==
    [][ /\ (/\ req'.method = "DELETE" /\ IsTodoPath(req'.path)
             /\ PathId(req'.path) \in Ids(todos))
            => /\ IsTodo(resp')
               /\ Returned(resp') \in todos
               /\ Returned(resp').id = PathId(req'.path)
               /\ todos' = todos \ {Returned(resp')}
               /\ PathId(req'.path) \notin Ids(todos')
        /\ (/\ req.method = "DELETE" /\ resp.status = 200
             /\ req'.method = "GET" /\ req'.path = req.path)
            => NotFoundError(resp') ]_vars

\* a row that had been updated was deleted and returned
C3_Witness ==
    /\ req.method = "DELETE"
    /\ IsTodo(resp)
    /\ Returned(resp).description = "a" /\ Returned(resp).completed = TRUE
    /\ Returned(resp).id \notin Ids(todos)
    /\ todos # {}

\* the rows before the i-th row of a page number offset + i - 1 in the table
IsPage(table, offset, limit, rows) ==
    /\ Len(rows) = Min(limit, IF Cardinality(table) > offset
                              THEN Cardinality(table) - offset ELSE 0)
    /\ \A i \in 1..Len(rows) :
          /\ rows[i] \in table
          /\ Cardinality({r \in table : r.id < rows[i].id}) = offset + i - 1

\* C4: for every non-negative offset and limit GET /todos returns the rows
\* of the table ascending by id, the first offset rows skipped and at most
\* limit rows kept.
C4_ListIsPage ==
    (/\ req.method = "GET" /\ req.path = <<"todos">>
     /\ req.query.offset # {} /\ req.query.limit # {})
    => /\ resp.status = 200 /\ resp.kind = "json_list"
       /\ IsPage(todos, Supplied(req.query.offset, 0), Supplied(req.query.limit, 0),
                 resp.rows)

\* C4 holds of the offsets and limits that fit an i64
C4_ListIsPageBelowWrap ==
    (/\ req.method = "GET" /\ req.path = <<"todos">>
     /\ req.query.offset # {} /\ req.query.limit # {}
     /\ Supplied(req.query.offset, 0) <= I64Max
     /\ Supplied(req.query.limit, 0) <= I64Max)
    => /\ resp.status = 200 /\ resp.kind = "json_list"
       /\ IsPage(todos, Supplied(req.query.offset, 0), Supplied(req.query.limit, 0),
                 resp.rows)

\* C5: GET, PUT or DELETE on /todos/{id} where no row has the id answers
\* 500 with the error text, as any other storage error does, and leaves the
\* table unchanged.
C5_NotFoundIsInternalError ==
    [][ (/\ req'.method \in {"GET", "PUT", "DELETE"} /\ IsTodoPath(req'.path)
         /\ req'.method = "PUT" => req'.body.kind = "json"
         /\ PathId(req'.path) \notin Ids(todos))
        => /\ NotFoundError(resp')
           /\ LET other == Handle(todos, seq,
                               Request("GET", <<"todos">>,
                                       Query({I64Max + 1}, {0}), NoBody)).resp
              IN  /\ other.text # RowNotFound
                  /\ resp'.status = other.status /\ resp'.kind = other.kind
           /\ todos' = todos /\ seq' = seq ]_vars

\* an update of an id that a delete removed has been answered
C5_Witness ==
    /\ req.method = "PUT" /\ IsTodoPath(req.path)
    /\ PathId(req.path) < seq
    /\ NotFoundError(resp)
    /\ todos # {}

\* the (method, path) pairs the specification lists as registered
Registered(method, path) ==
    \/ method = "GET" /\ path = <<>>
    \/ method \in {"GET", "POST"} /\ path = <<"todos">>
    \/ method \in {"GET", "PUT", "DELETE"} /\ Len(path) = 2 /\ path[1] = "todos"
RegisteredPath(path) == \E m \in Methods : Registered(m, path)

\* C6 as stated: every request whose (method, path) is not registered is
\* answered 404 "Not Found", a registered path with another method included.
\* (HEAD, which the GET routes serve too, is set aside here.)
C6_Original ==
    (req # NoRequest /\ req.method # "HEAD" /\ ~Registered(req.method, req.path))
    => resp = Text(404, "Not Found")

\* C6 as amended: a request whose path matches no route template is answered
\* by the fallback, 404 "Not Found" (a HEAD response carries no body); a
\* registered path with a method it has no handler for is answered 405 with
\* an empty body, except that HEAD is served by the GET handler.
C6_FallbackAndMethodNotAllowed ==
    /\ (req # NoRequest /\ ~RegisteredPath(req.path))
        => /\ resp.status = 404
           /\ req.method # "HEAD" => resp.kind = "text" /\ resp.text = "Not Found"
           /\ req.method = "HEAD" => resp.kind = "empty"
    /\ (/\ req # NoRequest /\ RegisteredPath(req.path)
         /\ ~Registered(req.method, req.path) /\ req.method # "HEAD")
        => resp = Response(405, "empty", "", <<>>)
    /\ (req.method = "HEAD" /\ RegisteredPath(req.path))
        => /\ resp.kind = "empty"
           /\ resp.status = Handle(todos, seq, [req EXCEPT !.method = "GET"]).resp.status
           /\ resp.status \notin {404, 405}

\* DELETE /todos has been answered 405
C6_Witness ==
    /\ req.method = "DELETE" /\ req.path = <<"todos">>
    /\ resp.status = 405
    /\ todos # {}

\* C7: on GET /todos a missing offset or limit defaults to 0 and the request
\* is answered 200 with the list computed as if it were 0.
C7_MissingQueryDefaultsToZero ==
    (/\ req.method = "GET" /\ req.path = <<"todos">>
     /\ (req.query.offset = {} \/ req.query.limit = {})
     /\ Supplied(req.query.offset, 0) <= I64Max
     /\ Supplied(req.query.limit, 0) <= I64Max)
    => /\ resp.status = 200 /\ resp.kind = "json_list"
       /\ IsPage(todos, Supplied(req.query.offset, 0), Supplied(req.query.limit, 0),
                 resp.rows)

\* C8: no two rows share an id, every id comes from the sequence when the
\* row is created, and no update changes an id: the Todo a PUT returns has
\* the id of the path.
C8_IdsUniqueAssignedImmutable ==
    [][ /\ \A r, q \in todos' : r.id = q.id => r = q
        /\ Ids(todos') \subseteq 1..(seq' - 1)
        /\ Ids(todos') \ Ids(todos)
              \subseteq (IF req'.method = "POST" /\ req'.path = <<"todos">>
                         THEN {seq} ELSE {})
        /\ req'.method = "PUT"
              => /\ Ids(todos') = Ids(todos)
                 /\ resp'.status = 200 => /\ IsTodo(resp')
                                          /\ Returned(resp').id = PathId(req'.path) ]_vars

\* a row other than the first has been updated after an earlier one was deleted
C8_Witness ==
    /\ req.method = "PUT" /\ IsTodo(resp)
    /\ Returned(resp).id > 1
    /\ Returned(resp) \in todos
    /\ Cardinality(todos) < seq - 1
    /\ Cardinality(todos) > 1

\* C10: a request changes at most one row: GET requests and requests ending
\* in an error leave the table unchanged, POST /todos only adds one row, PUT
\* and DELETE on /todos/{id} leave the rows of every other id unchanged.
C10_AtMostOneRowChanges ==
    [][ /\ (req'.method \in {"GET", "HEAD"} \/ resp'.status # 200)
            => todos' = todos
        /\ req'.method = "POST"
            => /\ todos \subseteq todos'
               /\ resp'.status = 200 => Cardinality(todos' \ todos) = 1
        /\ (req'.method \in {"PUT", "DELETE"} /\ IsTodoPath(req'.path))
            => {r \in todos' : r.id # PathId(req'.path)}
                  = {r \in todos : r.id # PathId(req'.path)}
        /\ Cardinality(todos \ todos') <= 1
        /\ Cardinality(todos' \ todos) <= 1 ]_vars

\* a row has been deleted from a table that keeps two other rows
C10_Witness ==
    /\ req.method = "DELETE" /\ IsTodo(resp)
    /\ Cardinality(todos) = 2
    /\ \E r \in todos : r.description = "a" /\ r.completed

----------------------------------------------------------------------------
(* Properties of ConcSpec *)

IsUpdateOf(r, id) == r.method = "PUT" /\ r.path = TodoPath(id) /\ r.body.kind = "json"
\* the row a PUT request writes
Written(id, r) ==
    Todo(id, Supplied(r.body.description, ""), Supplied(r.body.completed, FALSE))

\* C9: when two PUT /todos/{id} for the same existing id are in flight
\* together, each is applied as one statement and is answered 200, and the
\* row is the full pair of the one that committed last, never a mix.
C9_ConcurrentUpdatesLastCommitWins ==
    [][ \A t, u \in Tasks, id \in ConcIds :
          /\ (/\ t # u
               /\ tasks[t].pc = "pending" /\ tasks'[t].pc = "done"
               /\ IsUpdateOf(tasks[t].req, id)
               /\ tasks[u].pc \in {"pending", "done"}
               /\ IsUpdateOf(tasks[u].req, id)
               /\ id \in Ids(todos))
              => /\ tasks'[t].resp = JsonTodo(Written(id, tasks[t].req))
                 /\ {r \in todos' : r.id = id} = {Written(id, tasks[t].req)}
                 /\ tasks'[u] = tasks[u]
          /\ (/\ t # u
               /\ tasks'[t].pc = "done" /\ tasks'[u].pc = "done"
               /\ IsUpdateOf(tasks'[t].req, id) /\ IsUpdateOf(tasks'[u].req, id)
               /\ tasks'[t].resp.status = 200 /\ tasks'[u].resp.status = 200)
              => \/ {r \in todos' : r.id = id} = {Written(id, tasks'[t].req)}
                 \/ {r \in todos' : r.id = id} = {Written(id, tasks'[u].req)} ]_vars

\* two updates of one row, differing in both fields, have both been answered
C9_Witness ==
    \E id \in ConcIds :
        /\ tasks["t1"].pc = "done" /\ tasks["t2"].pc = "done"
        /\ IsUpdateOf(tasks["t1"].req, id) /\ IsUpdateOf(tasks["t2"].req, id)
        /\ tasks["t1"].resp.status = 200 /\ tasks["t2"].resp.status = 200
        /\ tasks["t1"].req.body = Body("json", {"a"}, {})
        /\ tasks["t2"].req.body = Body("json", {}, {TRUE})
        /\ Todo(id, "", TRUE) \in todos

====
